---- MODULE Spec2Model ----
(***************************************************************************)
(* ixtar: a single-file bundle [32-byte header][CSV index][raw payload].   *)
(* Model of CreateBundle (the writer) and of IxTar (the reader) of         *)
(* src/ixtar.go.  Files are sequences of bytes; every byte, of a path, of  *)
(* the index text or of the payload, is an integer 0..255 (ASCII code for  *)
(* text: 44 is ',', 10 is '\n', 46 is '.', 47 is '/', 48..57 are digits,   *)
(* 97..102 are 'a'..'f').                                                  *)
(***************************************************************************)
EXTENDS Integers, Sequences, FiniteSets, TLC

\* ------------------------------------------------------------------ bounds
\* longest content of a regular file of the source tree
MaxLen == 2

\* ------------------------------------------------------- program constants
HashLen == 16
\* size of the header block, var csvSizeBytes [32]byte
HeaderSize == 32
\* the CSV writer is flushed every FlushEvery records during the walk
FlushEvery == 1000

\* ---------------------------------------------------------------- helpers
Zeros(n) == [i \in 1..n |-> 0]

RECURSIVE SumBytes(_)
SumBytes(s) == IF s = <<>> THEN 0 ELSE Head(s) + SumBytes(Tail(s))

\* ------------------------------------------------------------ filepath.Clean
\* path/filepath.Clean for '/'-separated paths, as the lazybuf loop computes
\* it: r is the read index (0-based), out the output written so far, dotdot
\* the index in out below which ".." may not backtrack.
RECURSIVE CleanLoop(_, _, _, _, _)
CleanLoop(path, rooted, r, out, dotdot) ==
  LET n == Len(path)
      at(i) == path[i + 1]
  IN
  IF r >= n THEN out
  ELSE IF at(r) = 47 THEN
    \* empty path element
    CleanLoop(path, rooted, r + 1, out, dotdot)
  ELSE IF at(r) = 46 /\ (r + 1 = n \/ at(r + 1) = 47) THEN
    \* . element
    CleanLoop(path, rooted, r + 1, out, dotdot)
  ELSE IF at(r) = 46 /\ r + 1 < n /\ at(r + 1) = 46 /\ (r + 2 = n \/ at(r + 2) = 47) THEN
    \* .. element: remove to last separator
    IF Len(out) > dotdot THEN
      LET w0 == Len(out) - 1
          cut == CHOOSE w \in dotdot..w0 :
                   /\ (w = dotdot \/ out[w + 1] = 47)
                   /\ \A v \in (w + 1)..w0 : out[v + 1] # 47
      IN CleanLoop(path, rooted, r + 2, SubSeq(out, 1, cut), dotdot)
    ELSE IF ~rooted THEN
      LET o1 == IF Len(out) > 0 THEN Append(out, 47) ELSE out
          o2 == o1 \o <<46, 46>>
      IN CleanLoop(path, rooted, r + 2, o2, Len(o2))
    ELSE CleanLoop(path, rooted, r + 2, out, dotdot)
  ELSE
    \* real path element: add a slash if needed, then copy the element
    LET o1 == IF (rooted /\ Len(out) # 1) \/ (~rooted /\ Len(out) # 0)
              THEN Append(out, 47) ELSE out
        stop == IF \E i \in r..(n - 1) : at(i) = 47
                THEN CHOOSE i \in r..(n - 1) :
                       at(i) = 47 /\ \A j \in r..(i - 1) : at(j) # 47
                ELSE n
    IN CleanLoop(path, rooted, stop, o1 \o SubSeq(path, r + 1, stop), dotdot)

CleanRaw(path) == path

Clean(path) ==
  IF path = <<>> THEN <<46>>
  ELSE LET rooted == path[1] = 47
           out == IF rooted
                  THEN CleanLoop(path, TRUE, 1, <<47>>, 1)
                  ELSE CleanLoop(path, FALSE, 0, <<>>, 0)
       IN IF out = <<>> THEN <<46>> ELSE out

\* -------------------------------------------------------------- hashFilePath
\* md5 is abstracted by a one-byte checksum of the input placed in the first
\* byte of the 16-byte digest.  What the abstraction keeps of md5[:8]: it is a
\* deterministic function of the bytes of its argument alone, its value has a
\* fixed length, and its range is finite, so distinct paths with equal keys
\* exist.  The small range brings such a pair inside the bounded path universe.
md5Sum(data) == [i \in 1..16 |-> IF i = 1 THEN SumBytes(data) % 256 ELSE 0]

HexDigit(n) == IF n < 10 THEN 48 + n ELSE 87 + n

\* hex.EncodeToString: two lower-case hex digits per byte
EncodeToString(bs) ==
  [i \in 1..(2 * Len(bs)) |->
     LET b == bs[(i + 1) \div 2]
     IN IF i % 2 = 1 THEN HexDigit(b \div 16) ELSE HexDigit(b % 16)]

hashFilePath(filePath) == SubSeq(EncodeToString(md5Sum(filePath)), 1, HashLen)

\* ------------------------------------------------------- strconv, binary
RECURSIVE FormatUint(_)
FormatUint(n) ==
  IF n < 10 THEN <<48 + n>> ELSE Append(FormatUint(n \div 10), 48 + (n % 10))

\* strconv.FormatInt(n, 10)
FormatInt(n) == IF n < 0 THEN <<45>> \o FormatUint(-n) ELSE FormatUint(n)

IsDigit(c) == c >= 48 /\ c <= 57

RECURSIVE ParseDigits(_, _)
ParseDigits(s, acc) ==
  IF s = <<>> THEN acc ELSE ParseDigits(Tail(s), acc * 10 + (Head(s) - 48))

\* a conversion that takes the leading digits and never fails, as C's atoi
ParseIntLenient(s) ==
  LET signed == s # <<>> /\ Head(s) \in {43, 45}
      body == IF signed THEN Tail(s) ELSE s
      stop == IF \E i \in 1..Len(body) : ~IsDigit(body[i])
              THEN CHOOSE i \in 1..Len(body) :
                     ~IsDigit(body[i]) /\ \A j \in 1..(i - 1) : IsDigit(body[j])
              ELSE Len(body) + 1
      val == ParseDigits(SubSeq(body, 1, stop - 1), 0)
  IN [ok |-> TRUE, val |-> IF signed /\ Head(s) = 45 THEN 0 - val ELSE val]

\* strconv.ParseInt(s, 10, 64): optional sign, then at least one digit.
\* (Values of the model stay far below 2^63, the ErrRange case is not drawn.)
ParseInt(s) ==
  LET signed == s # <<>> /\ Head(s) \in {43, 45}
      body == IF signed THEN Tail(s) ELSE s
  IN IF body = <<>> \/ \E i \in 1..Len(body) : ~IsDigit(body[i])
     THEN [ok |-> FALSE, val |-> 0]
     ELSE [ok |-> TRUE,
           val |-> IF signed /\ Head(s) = 45
                   THEN 0 - ParseDigits(body, 0) ELSE ParseDigits(body, 0)]

RECURSIVE BigEndianBytes(_, _)
BigEndianBytes(v, n) ==
  IF n = 0 THEN <<>> ELSE Append(BigEndianBytes(v \div 256, n - 1), v % 256)

RECURSIVE LittleEndianBytes(_, _)
LittleEndianBytes(v, n) ==
  IF n = 0 THEN <<>> ELSE <<v % 256>> \o LittleEndianBytes(v \div 256, n - 1)

PutUint64LE(v) == LittleEndianBytes(v, 8)

\* binary.BigEndian.PutUint64
PutUint64(v) == BigEndianBytes(v, 8)

RECURSIVE HornerBytes(_, _)
HornerBytes(bs, acc) ==
  IF bs = <<>> THEN acc ELSE HornerBytes(Tail(bs), acc * 256 + Head(bs))

\* int64(binary.BigEndian.Uint64(b)).  The integers of the model are narrower
\* than 64 bits: a value with the top bit set converts to a negative length
\* (reported as -1), another value of 2^24 or more is reported as 2^24, which
\* exceeds the length of every file of the model.
Uint64AsInt64(bs) ==
  IF bs[1] >= 128 THEN 0 - 1
  ELSE IF \E i \in 1..5 : bs[i] # 0 THEN 16777216
  ELSE HornerBytes(bs, 0)

\* ------------------------------------------------------------ encoding/csv
\* csv.Writer.Write of one record: fields joined by ',', ended by '\n'.  The
\* fields written are hex digits and decimal integers, for which
\* fieldNeedsQuotes is false.
csvWrite(record) ==
  record[1] \o <<44>> \o record[2] \o <<44>> \o record[3] \o <<10>>

RECURSIVE SplitFrom(_, _, _)
SplitFrom(s, sep, cur) ==
  IF s = <<>> THEN <<cur>>
  ELSE IF Head(s) = sep THEN <<cur>> \o SplitFrom(Tail(s), sep, <<>>)
  ELSE SplitFrom(Tail(s), sep, Append(cur, Head(s)))

\* csv.Reader.ReadAll on text without quotes: one record per non-empty line,
\* FieldsPerRecord = 0 makes every record have the field count of the first.
ReadAll(csvData) ==
  LET lines == SelectSeq(SplitFrom(csvData, 10, <<>>), LAMBDA l : l # <<>>)
      records == [i \in 1..Len(lines) |-> SplitFrom(lines[i], 44, <<>>)]
  IN IF \E i \in 1..Len(records) : Len(records[i]) # Len(records[1])
     THEN [ok |-> FALSE, records |-> <<>>]
     ELSE [ok |-> TRUE, records |-> records]

\* index.Files[hash] = FileIndex{...}: a later record replaces an earlier one
Put(files, k, v) == [x \in (DOMAIN files) \cup {k} |-> IF x = k THEN v ELSE files[x]]

RECURSIVE IndexFrom(_, _)
IndexFrom(records, files) ==
  IF records = <<>> THEN [err |-> "none", files |-> files]
  ELSE LET record == Head(records)
       IN IF Len(record) # 3 THEN [err |-> "fields", files |-> <<>>]
          ELSE LET start == ParseInt(record[2])
                   size == ParseInt(record[3])
               IN IF ~start.ok THEN [err |-> "start", files |-> <<>>]
                  ELSE IF ~size.ok THEN [err |-> "size", files |-> <<>>]
                  ELSE IndexFrom(Tail(records),
                                 Put(files, record[1],
                                     [Start |-> start.val, Size |-> size.val]))

parseCSVIndex(csvData) ==
  LET all == ReadAll(csvData)
  IN IF ~all.ok THEN [err |-> "csv", files |-> <<>>]
     ELSE IndexFrom(all.records, <<>>)

\* ------------------------------------------------------------------ reader
\* os.File.Seek(offset, io.SeekStart) on the bundle handle f = [state, pos]
SeekIgnoringClose(f, offset) ==
  IF offset < 0 THEN [err |-> "seek", f |-> f]
  ELSE [err |-> "none", f |-> [f EXCEPT !.pos = offset]]

Seek(f, offset) ==
  IF f.state # "open" THEN [err |-> "closed", f |-> f]
  ELSE IF offset < 0 THEN [err |-> "seek", f |-> f]
  ELSE [err |-> "none", f |-> [f EXCEPT !.pos = offset]]

\* io.ReadFull(f, buf) with len(buf) = n >= 0 on the file holding bytes
ReadFull(f, bytes, n) ==
  IF n = 0 THEN [err |-> "none", data |-> <<>>, f |-> f]
  ELSE IF f.state # "open" THEN [err |-> "closed", data |-> <<>>, f |-> f]
  ELSE IF f.pos + n > Len(bytes)
    THEN [err |-> "read", data |-> <<>>,
          f |-> [f EXCEPT !.pos = IF f.pos > Len(bytes) THEN f.pos ELSE Len(bytes)]]
  ELSE [err |-> "none", data |-> SubSeq(bytes, f.pos + 1, f.pos + n),
        f |-> [f EXCEPT !.pos = f.pos + n]]

\* make([]byte, csvSize) for the length field bs ends the program: a negative
\* length (top bit set) panics, and so does a length of 2^48 or more, beyond
\* what the runtime allocates on a 64-bit platform.  A smaller length that
\* exceeds the file is taken as allocated, the read that follows fails.
MakeSliceFails(bs) == bs[1] # 0 \/ bs[2] # 0

NilIxTar == [state |-> "nil", index |-> <<>>, csvSize |-> 0, dataOffset |-> 0]
NoFile == [state |-> "none", pos |-> 0]

\* NewIxTar(bundlePath) on the file b = [exists, data] at bundlePath.  err is
\* "none" and ix the reader, or ix is nil and the handle is closed; "panic"
\* is make([]byte, csvSize) ending the program, the handle left open.
NewIxTar(b) ==
  LET fail(e, h) == [err |-> e, ix |-> NilIxTar, file |-> h]
      closedAt(p) == [state |-> "closed", pos |-> p]
  IN
  IF ~b.exists THEN fail("open", NoFile)
  ELSE IF Len(b.data) < HeaderSize THEN fail("header", closedAt(Len(b.data)))
  ELSE LET csvSizeRead == Uint64AsInt64(SubSeq(b.data, 25, 32))
       IN IF MakeSliceFails(SubSeq(b.data, 25, 32))
          THEN fail("panic", [state |-> "open", pos |-> HeaderSize])
          ELSE IF HeaderSize + csvSizeRead > Len(b.data)
            THEN fail("csvdata", closedAt(Len(b.data)))
          ELSE LET parsed == parseCSVIndex(SubSeq(b.data, HeaderSize + 1,
                                                  HeaderSize + csvSizeRead))
               IN IF parsed.err # "none"
                  THEN fail("parse", closedAt(HeaderSize + csvSizeRead))
                  ELSE [err |-> "none",
                        ix |-> [state |-> "open", index |-> parsed.files,
                                csvSize |-> csvSizeRead,
                                dataOffset |-> 32 + csvSizeRead],
                        file |-> [state |-> "open", pos |-> HeaderSize + csvSizeRead]]

\* index lookup of ExtractBytesOfFile; a missing key fails the call
LookupOrZero(r, hash) ==
  IF hash \in DOMAIN r.index
  THEN [exists |-> TRUE, fileIndex |-> r.index[hash]]
  ELSE [exists |-> TRUE, fileIndex |-> [Start |-> 0, Size |-> 0]]

Lookup(r, hash) ==
  IF hash \in DOMAIN r.index
  THEN [exists |-> TRUE, fileIndex |-> r.index[hash]]
  ELSE [exists |-> FALSE, fileIndex |-> [Start |-> 0, Size |-> 0]]

\* ix.ExtractBytesOfFile(filePath) for the reader r, its handle f and the
\* bytes of the bundle file.  hasData tells a returned slice from nil; seekTo
\* is the offset handed to Seek (-1 when Seek is not reached).
ExtractBytesOfFile(r, f, bytes, filePath) ==
  LET none(e, h, o) == [err |-> e, data |-> <<>>, hasData |-> FALSE, file |-> h, seekTo |-> o]
  IN
  IF r.state = "nil" THEN none("nil", f, 0 - 1)
  ELSE
    LET cleanPath == Clean(filePath)
        hash == hashFilePath(cleanPath)
        found == Lookup(r, hash)
    IN IF ~found.exists THEN none("notfound", f, 0 - 1)
       ELSE
         LET fileOffset == r.dataOffset + found.fileIndex.Start
             sought == Seek(f, fileOffset)
         IN IF sought.err # "none" THEN none(sought.err, sought.f, fileOffset)
            ELSE IF found.fileIndex.Size < 0 THEN none("panic", sought.f, fileOffset)
            ELSE LET got == ReadFull(sought.f, bytes, found.fileIndex.Size)
                 IN IF got.err # "none" THEN none(got.err, got.f, fileOffset)
                    ELSE [err |-> "none", data |-> got.data, hasData |-> TRUE,
                          file |-> got.f, seekTo |-> fileOffset]

\* ix.ListFiles(): the keys of the index (a slice in map order, here a set)
ListFiles(r) == DOMAIN r.index

\* ix.Info()
Info(r) == [fileCount |-> Cardinality(DOMAIN r.index), csvSizeBytes |-> r.csvSize]

\* ------------------------------------------------------------- source tree
\* The entries filepath.Walk visits, in its lexical order; rel is the path
\* filepath.Rel yields, size is info.Size().  The tree does not change while
\* it is walked, so size is the length of content for a regular file.
\*   "."  "ab"  "ba"  "d"  "d/a"  "s"
\* "ab" and "ba" are two distinct canonical paths with one key.
RelRoot == <<46>>
RelAB == <<97, 98>>
RelBA == <<98, 97>>
RelD == <<100>>
RelDA == <<100, 47, 97>>
RelS == <<115>>

\* contents of length at most MaxLen; each file has a byte of its own, so that
\* bytes read at a wrong offset or for a wrong entry differ from the expected
Fill(byte, n) == [i \in 1..n |-> byte]

Entry(rel, kind, content) ==
  [rel |-> rel, kind |-> kind, size |-> Len(content), content |-> content]

\* has: which of the five candidates exist; len: the length of each file
MkTree(has, len) ==
  LET all == << Entry(RelRoot, "dir", <<>>),
                Entry(RelAB, "regular", Fill(65, len[1])),
                Entry(RelBA, "regular", Fill(66, len[2])),
                Entry(RelD, "dir", <<>>),
                Entry(RelDA, "regular", Fill(67, len[3])),
                Entry(RelS, "symlink", <<>>) >>
      keep == [i \in 1..6 |-> i = 1 \/ has[i - 1]]
      idx == SelectSeq(<<1, 2, 3, 4, 5, 6>>, LAMBDA i : keep[i])
  IN [j \in 1..Len(idx) |-> all[idx[j]]]

Trees ==
  { MkTree(has, len) :
      has \in {h \in [1..5 -> BOOLEAN] : h[4] => h[3]},
      len \in [1..3 -> 0..MaxLen] }

\* the paths ExtractBytesOfFile is called with: "ab", "./ab", "ba", "d/a",
\* "d//a", "d", "s", "x", "d/../ab", ""
QueryPaths ==
  { RelAB, <<46, 47, 97, 98>>, RelBA, RelDA, <<100, 47, 47, 97>>,
    RelD, RelS, <<120>>, <<100, 47, 46, 46, 47, 97, 98>>, <<>> }

\* a bundle left at the output path by an earlier build of the tree {"x": "Z"}
PriorBundle ==
  [exists |-> TRUE,
   data |-> Zeros(31) \o <<21>> \o hashFilePath(<<120>>) \o <<44, 48, 44, 49, 10>> \o <<90>>]

NoBundle == [exists |-> FALSE, data |-> <<>>]

\* -------------------------------------------------------------------- state
VARIABLES
  tree,          \* the source directory
  prior,         \* the file at bundlePath when CreateBundle is called
  bundle,        \* the file at bundlePath
  pc,            \* position of CreateBundle
  buildErr,      \* what CreateBundle returned
  walkIdx,       \* the entry filepath.Walk visits next
  tmpDataFile,   \* bytes of the temporary raw data file
  tmpCsvFile,    \* bytes of the temporary CSV file
  csvWriter,     \* bytes buffered in csv.Writer, not yet flushed
  currentPos,
  csvFileCount,
  csvSize,
  ix,            \* the *IxTar of the caller (nil until NewIxTar succeeds)
  file,          \* ix.file: the handle on the bundle, [state, pos]
  lastOp,        \* the last reader call and what it returned
  calls,         \* the ExtractBytesOfFile call of each concurrent caller
  mu             \* the callers' own lock around a call: [on, holder]

vars == << tree, prior, bundle, pc, buildErr, walkIdx, tmpDataFile, tmpCsvFile,
           csvWriter, currentPos, csvFileCount, csvSize, ix, file, lastOp,
           calls, mu >>

buildLocals == << walkIdx, tmpDataFile, tmpCsvFile, csvWriter, currentPos,
                  csvFileCount, csvSize >>
readerVars == << ix, file, lastOp >>
callerVars == << calls, mu >>

\* the goroutines that share one *IxTar
NumCallers == 2
Callers == 1..NumCallers

\* a caller's call: pc is "idle" before the call, "sought" between
\* ix.file.Seek and io.ReadFull, "done" once it returned; fileIndex is the
\* entry looked up; moved tells that another call moved the cursor of ix.file
\* between this call's Seek and its ReadFull
NoCall ==
  [pc |-> "idle", path |-> <<>>, fileIndex |-> [Start |-> 0, Size |-> 0],
   err |-> "none", data |-> <<>>, hasData |-> FALSE, moved |-> FALSE]

NoLock == [on |-> FALSE, holder |-> 0]

NoOp ==
  [op |-> "none", path |-> <<>>, err |-> "none", data |-> <<>>, hasData |-> FALSE,
   keys |-> {}, count |-> 0, csvSize |-> 0, closed |-> FALSE, seekTo |-> 0 - 1]

Init ==
  /\ tree \in Trees
  /\ prior \in {NoBundle, PriorBundle}
  /\ bundle = prior
  /\ pc = "start"
  /\ buildErr = "none"
  /\ walkIdx = 1
  /\ tmpDataFile = <<>>
  /\ tmpCsvFile = <<>>
  /\ csvWriter = <<>>
  /\ currentPos = 0
  /\ csvFileCount = 0
  /\ csvSize = 0
  /\ ix = NilIxTar
  /\ file = NoFile
  /\ lastOp = NoOp
  /\ calls = [c \in Callers |-> NoCall]
  /\ mu = NoLock

\* ------------------------------------------------------------- CreateBundle
\* CreateBundle(sourceDir, bundlePath) = CreateBundleWithProgress(.., nil):
\* the progress callback is nil, the counting walk is not run.  Each action is
\* one step of the function between two I/O calls that can fail; fault picks
\* whether the I/O of the step fails.

\* return err: the deferred Close and os.Remove discard both temporary files,
\* the locals of the call are gone
Return(err) ==
  /\ pc' = "returned"
  /\ buildErr' = err
  /\ tmpDataFile' = <<>>
  /\ tmpCsvFile' = <<>>
  /\ csvWriter' = <<>>
  /\ walkIdx' = 1
  /\ currentPos' = 0
  /\ csvFileCount' = 0
  /\ csvSize' = 0

\* os.CreateTemp of the data file and of the CSV file, csv.NewWriter
CreateTemp ==
  /\ pc = "start"
  /\ \E fault \in BOOLEAN :
       IF fault
       THEN Return("tmp")
       ELSE /\ pc' = "walk"
            /\ UNCHANGED << buildErr, buildLocals >>
  /\ UNCHANGED << callerVars, tree, prior, bundle, readerVars >>

IsRegularOrLink(kind) == kind # "dir"

\* info.Mode().IsRegular()
IsRegular(kind) == kind = "regular"

NextPosStale(pos, written) == pos

\* currentPos += written
NextPos(pos, written) == pos + written

\* the walk function of Phase 1, called for tree[walkIdx]
WalkFn ==
  /\ pc = "walk"
  /\ LET info == tree[walkIdx]
         relPath == info.rel
         more == /\ pc' = IF walkIdx = Len(tree) THEN "flush" ELSE "walk"
                 /\ walkIdx' = walkIdx + 1
                 /\ UNCHANGED buildErr
         failed == Return("walk")
     IN \E fault \in {"none", "lstat", "flush", "open", "copy"} :
          IF fault = "lstat" THEN failed
          ELSE IF relPath = <<46>> \/ info.kind = "dir" THEN
            /\ fault = "none"
            /\ more
            /\ UNCHANGED << tmpDataFile, tmpCsvFile, csvWriter, currentPos,
                            csvFileCount, csvSize >>
          ELSE IF IsRegular(info.kind) THEN
            LET cleanPath == Clean(relPath)
                hash == hashFilePath(cleanPath)
                record == << hash, FormatInt(currentPos), FormatInt(info.size) >>
                buffered == csvWriter \o csvWrite(record)
                flushNow == (csvFileCount + 1) % FlushEvery = 0
            IN IF fault = "flush" THEN flushNow /\ failed
               ELSE IF fault = "open" THEN failed
               ELSE IF fault = "copy" THEN info.content # <<>> /\ failed
               ELSE /\ more
                    /\ csvFileCount' = csvFileCount + 1
                    /\ csvWriter' = IF flushNow THEN <<>> ELSE buffered
                    /\ tmpCsvFile' = IF flushNow THEN tmpCsvFile \o buffered
                                     ELSE tmpCsvFile
                    /\ tmpDataFile' = tmpDataFile \o info.content
                    /\ currentPos' = NextPos(currentPos, Len(info.content))
                    /\ UNCHANGED csvSize
          ELSE
            /\ fault = "none"
            /\ more
            /\ UNCHANGED << tmpDataFile, tmpCsvFile, csvWriter, currentPos,
                            csvFileCount, csvSize >>
  /\ UNCHANGED << callerVars, tree, prior, bundle, readerVars >>

\* csvWriter.Flush(), csvWriter.Error(), tmpCsvFile.Seek(0, io.SeekCurrent)
FlushIndex ==
  /\ pc = "flush"
  /\ \E fault \in BOOLEAN :
       IF fault
       THEN Return("flush")
       ELSE /\ pc' = "create"
            /\ tmpCsvFile' = tmpCsvFile \o csvWriter
            /\ csvWriter' = <<>>
            /\ csvSize' = Len(tmpCsvFile \o csvWriter)
            /\ UNCHANGED << buildErr, walkIdx, tmpDataFile, currentPos, csvFileCount >>
  /\ UNCHANGED << callerVars, tree, prior, bundle, readerVars >>

\* Phase 2: os.Create(bundlePath) creates the file or truncates the one there
CreateBundleFile ==
  /\ pc = "create"
  /\ \E fault \in BOOLEAN :
       IF fault
       THEN Return("create") /\ UNCHANGED bundle
       ELSE /\ pc' = "header"
            /\ bundle' = [exists |-> TRUE, data |-> <<>>]
            /\ UNCHANGED << buildErr, buildLocals >>
  /\ UNCHANGED << callerVars, tree, prior, readerVars >>

\* a write of bytes to the bundle file: all of them, or an error after the
\* first k of them (k = 0 is also the Seek before an io.Copy failing)
WriteStep(at, next, errName, bytes) ==
  /\ pc = at
  /\ \/ /\ bundle' = [bundle EXCEPT !.data = @ \o bytes]
        /\ IF next = "returned"
           THEN Return("none")
           ELSE pc' = next /\ UNCHANGED << buildErr, buildLocals >>
     \/ \E k \in (IF bytes = <<>> THEN {0} ELSE 0..(Len(bytes) - 1)) :
          /\ bundle' = [bundle EXCEPT !.data = @ \o SubSeq(bytes, 1, k)]
          /\ Return(errName)
  /\ UNCHANGED << callerVars, tree, prior, readerVars >>

\* csvSizeBytes[24:] = big-endian csvSize; bundleFile.Write(csvSizeBytes[:])
HeaderBytes(size) == Zeros(24) \o PutUint64(size)

WriteHeader == WriteStep("header", "copycsv", "header", HeaderBytes(csvSize))

\* io.Copy(bundleFile, tmpCsvFile) from the start of the CSV file
CopyIndex == WriteStep("copycsv", "copydata", "copycsv", tmpCsvFile)

\* io.Copy(bundleFile, tmpDataFile) from the start of the data file; return nil
CopyPayload == WriteStep("copydata", "returned", "copydata", tmpDataFile)

\* ------------------------------------------------------------ reader calls
\* The caller opens the bundle once CreateBundle has returned nil (the test
\* and the CLI stop on a build error): a bundle is written once, then read.

\* ix, err := NewIxTar(bundlePath)
Open ==
  /\ pc = "returned"
  /\ buildErr = "none"
  /\ ix.state = "nil"
  /\ file.state = "none"
  /\ LET res == NewIxTar(bundle)
     IN /\ ix' = res.ix
        /\ file' = res.file
        /\ lastOp' = [NoOp EXCEPT !.op = "open", !.err = res.err]
  /\ UNCHANGED << callerVars, tree, prior, bundle, pc, buildErr, buildLocals >>

\* data, err := ix.ExtractBytesOfFile(filePath)
Extract ==
  /\ pc = "returned"
  /\ lastOp.op # "none"
  /\ lastOp.err # "panic"
  /\ \E filePath \in QueryPaths :
       LET res == ExtractBytesOfFile(ix, file, bundle.data, filePath)
       IN /\ file' = res.file
          /\ lastOp' = [NoOp EXCEPT !.op = "extract", !.path = filePath,
                                    !.err = res.err, !.data = res.data,
                                    !.hasData = res.hasData,
                                    !.closed = (file.state = "closed"),
                                    !.seekTo = res.seekTo]
  /\ UNCHANGED << callerVars, tree, prior, bundle, pc, buildErr, buildLocals, ix >>

\* files := ix.ListFiles()
List ==
  /\ pc = "returned"
  /\ ix.state = "open"
  /\ lastOp.err # "panic"
  /\ lastOp' = [NoOp EXCEPT !.op = "list", !.keys = ListFiles(ix),
                            !.count = Cardinality(ListFiles(ix)),
                            !.closed = (file.state = "closed")]
  /\ UNCHANGED << callerVars, tree, prior, bundle, pc, buildErr, buildLocals, ix, file >>

\* fileCount, csvSizeBytes := ix.Info()
GetInfo ==
  /\ pc = "returned"
  /\ ix.state = "open"
  /\ lastOp.err # "panic"
  /\ lastOp' = [NoOp EXCEPT !.op = "info", !.count = Info(ix).fileCount,
                            !.csvSize = Info(ix).csvSizeBytes,
                            !.closed = (file.state = "closed")]
  /\ UNCHANGED << callerVars, tree, prior, bundle, pc, buildErr, buildLocals, ix, file >>

\* ix.Close(): closes ix.file, an error when it is closed already
Close ==
  /\ pc = "returned"
  /\ ix.state = "open"
  /\ lastOp.err # "panic"
  /\ file' = [file EXCEPT !.state = "closed"]
  /\ lastOp' = [NoOp EXCEPT !.op = "close",
                            !.err = IF file.state = "closed" THEN "closed" ELSE "none",
                            !.closed = (file.state = "closed")]
  /\ UNCHANGED << callerVars, tree, prior, bundle, pc, buildErr, buildLocals, ix >>

Next ==
  \/ CreateTemp
  \/ WalkFn
  \/ FlushIndex
  \/ CreateBundleFile
  \/ WriteHeader
  \/ CopyIndex
  \/ CopyPayload
  \/ Open
  \/ Extract
  \/ List
  \/ GetInfo
  \/ Close

Spec == Init /\ [][Next]_vars

TypeOK ==
  /\ pc \in {"start", "walk", "flush", "create", "header", "copycsv", "copydata", "returned"}
  /\ bundle.exists \in BOOLEAN
  /\ file.state \in {"none", "open", "closed"}
  /\ ix.state \in {"nil", "open"}

\* ------------------------------------------------------ what the claims use
Built == pc = "returned" /\ buildErr = "none"

RegularFiles(t) == SelectSeq(t, LAMBDA e : e.kind = "regular")

NumRegular(t) == Len(RegularFiles(t))

KeyOf(path) == hashFilePath(Clean(path))

\* two distinct canonical relative paths of regular files with one key
HasCollision(t) ==
  \E i, j \in 1..Len(t) :
    /\ t[i].kind = "regular" /\ t[j].kind = "regular"
    /\ t[i].rel # t[j].rel
    /\ KeyOf(t[i].rel) = KeyOf(t[j].rel)

\* total length of the contents of the first n files of fs
RECURSIVE SumLen(_, _)
SumLen(fs, n) == IF n = 0 THEN 0 ELSE SumLen(fs, n - 1) + Len(fs[n].content)

\* the index and the payload a tree is expected to give: one line
\* "key,start,size\n" per regular file and the contents, both in walk order
RECURSIVE ExpectedIndex(_, _)
ExpectedIndex(fs, n) ==
  IF n = 0 THEN <<>>
  ELSE ExpectedIndex(fs, n - 1) \o KeyOf(fs[n].rel) \o <<44>>
         \o FormatInt(SumLen(fs, n - 1)) \o <<44>>
         \o FormatInt(Len(fs[n].content)) \o <<10>>

RECURSIVE ExpectedPayload(_, _)
ExpectedPayload(fs, n) ==
  IF n = 0 THEN <<>> ELSE ExpectedPayload(fs, n - 1) \o fs[n].content

\* the records of the index of the bundle file b, as [key, start, size]
BundleRecords(b) ==
  LET L == HornerBytes(SubSeq(b.data, 25, 32), 0)
      recs == ReadAll(SubSeq(b.data, 33, 32 + L)).records
  IN [i \in 1..Len(recs) |-> [key |-> recs[i][1],
                              start |-> ParseInt(recs[i][2]).val,
                              size |-> ParseInt(recs[i][3]).val]]

BundlePayloadLen(b) == Len(b.data) - 32 - HornerBytes(SubSeq(b.data, 25, 32), 0)

\* ------------------------------------------------------------------ claims

\* C1 (as claimed).  Round trip: on an open reader of a bundle built without
\* error, ExtractBytesOfFile(p) for the relative path p of a regular file of
\* the source tree returns the content of that file and no error, whatever
\* extract calls came before.
C1_RoundTrip ==
  (lastOp.op = "extract" /\ ix.state = "open" /\ ~lastOp.closed) =>
    \A i \in 1..Len(tree) :
      (tree[i].kind = "regular" /\ lastOp.path = tree[i].rel) =>
        (lastOp.err = "none" /\ lastOp.hasData /\ lastOp.data = tree[i].content)

\* The round trip of C1 for the trees in which no two files share a key.
RoundTripDistinctKeys ==
  ~HasCollision(tree) => C1_RoundTrip

\* C2.  Not-found law: on an open reader, ExtractBytesOfFile of a path whose
\* key is not in the index returns the not-found error and no bytes.
C2_NotFoundLaw ==
  (lastOp.op = "extract" /\ ix.state = "open" /\ ~lastOp.closed
     /\ KeyOf(lastOp.path) \notin DOMAIN ix.index) =>
    (lastOp.err = "notfound" /\ ~lastOp.hasData /\ lastOp.data = <<>>)

\* the path "x", of no file, was asked of a reader with a non-empty index
C2_Witness ==
  /\ lastOp.op = "extract" /\ ix.state = "open" /\ ~lastOp.closed
  /\ lastOp.path = <<120>>
  /\ DOMAIN ix.index # {}
  /\ lastOp.err = "notfound"

\* C3 (as claimed).  Completeness: the number of keys ListFiles returns, and
\* the fileCount of Info, is the number of regular files of the source tree.
C3_Completeness ==
  /\ lastOp.op = "list" =>
       (lastOp.count = NumRegular(tree) /\ Cardinality(lastOp.keys) = NumRegular(tree))
  /\ lastOp.op = "info" => lastOp.count = NumRegular(tree)

\* The completeness of C3 for the trees in which no two files share a key.
CompletenessDistinctKeys ==
  ~HasCollision(tree) => C3_Completeness

\* C4 (as claimed).  Collision law: a build of a tree in which two distinct
\* canonical paths have one key does not return nil: it returns the collision
\* error, unless an I/O error ended it before.
C4_CollisionLaw ==
  (pc = "returned" /\ HasCollision(tree)) =>
    buildErr \in {"collision", "tmp", "walk", "flush", "create", "header",
                  "copycsv", "copydata"}

\* C5 (as claimed).  Build atomicity: when CreateBundle returns an error, the
\* output path holds what it held before the call: nothing, or the complete
\* prior bundle.
C5_BuildAtomicity ==
  (pc = "returned" /\ buildErr # "none") => bundle = prior

C8_EmptyTree ==
  NumRegular(tree) = 0 =>
    /\ Built => bundle = [exists |-> TRUE, data |-> Zeros(32)]
    /\ lastOp.op = "open" =>
         /\ lastOp.err = "none"
         /\ ix.state = "open" /\ file.state = "open"
         /\ DOMAIN ix.index = {}
         /\ ix.csvSize = 0
    /\ lastOp.op = "list" => (lastOp.keys = {} /\ lastOp.count = 0)

\* ListFiles was called on the bundle of a tree holding a directory and a
\* symbolic link, and no regular file
C8_Witness ==
  /\ NumRegular(tree) = 0
  /\ \E i, j \in 1..Len(tree) :
       /\ tree[i].rel # <<46>> /\ tree[i].kind = "dir"
       /\ tree[j].kind = "symlink"
  /\ lastOp.op = "list"
  /\ ix.state = "open"

\* C9.  Bundle layout: in a bundle built without error bytes [0,24) are zero,
\* bytes [24,32) are the big-endian length L of the serialized index, the
\* index is in [32, 32+L) and the payload runs from 32+L to the end of the
\* file; the reader has csvSize = L and dataOffset = 32 + L, and every
\* extraction seeks to 32 + L + the start of the entry.  (L < 65536 in the
\* model: bytes [24,30) are zero too.)
C9_BundleLayout ==
  Built =>
    LET fs == RegularFiles(tree)
        index == ExpectedIndex(fs, Len(fs))
        payload == ExpectedPayload(fs, Len(fs))
        L == Len(index)
        d == bundle.data
    IN /\ Len(d) = 32 + L + Len(payload)
       /\ \A i \in 1..30 : d[i] = 0
       /\ d[31] = (L \div 256) % 256
       /\ d[32] = L % 256
       /\ SubSeq(d, 33, 32 + L) = index
       /\ SubSeq(d, 33 + L, Len(d)) = payload
       /\ ix.state = "open" => (ix.csvSize = L /\ ix.dataOffset = 32 + L)
       /\ (lastOp.op = "extract" /\ lastOp.seekTo # 0 - 1) =>
            lastOp.seekTo = 32 + L + ix.index[KeyOf(lastOp.path)].Start

\* a file that does not start the payload was extracted from a bundle with a
\* non-empty index
C9_Witness ==
  /\ Built
  /\ lastOp.op = "extract" /\ lastOp.err = "none"
  /\ ix.csvSize > 0
  /\ lastOp.seekTo > ix.dataOffset
  /\ lastOp.data # <<>>

\* the path elements other than "" and ".", and whether the path is rooted
Segments(path) ==
  SelectSeq(SplitFrom(path, 47, <<>>), LAMBDA e : e # <<>> /\ e # <<46>>)

\* two paths with one canonical form: equal once "." elements and repeated or
\* trailing separators are dropped (paths with ".." elements left aside)
SameCanonical(p, q) ==
  /\ (p # <<>> /\ p[1] = 47) = (q # <<>> /\ q[1] = 47)
  /\ Segments(p) = Segments(q)
  /\ \A i \in 1..Len(Segments(p)) : Segments(p)[i] # <<46, 46>>

IsHex(c) == (c >= 48 /\ c <= 57) \/ (c >= 97 /\ c <= 102)

\* C10.  Canonicalization: two paths with one canonical form have the same
\* key, of 16 hex characters, and ExtractBytesOfFile returns the same result
\* (error and bytes) for both.
C10_Canonicalization ==
  lastOp.op = "extract" =>
    \A q \in QueryPaths :
      SameCanonical(lastOp.path, q) =>
        /\ KeyOf(q) = KeyOf(lastOp.path)
        /\ Len(KeyOf(q)) = 16
        /\ \A i \in 1..Len(KeyOf(q)) : IsHex(KeyOf(q)[i])
        /\ LET res == ExtractBytesOfFile(ix, file, bundle.data, q)
           IN /\ res.err = lastOp.err
              /\ res.hasData = lastOp.hasData
              /\ res.data = lastOp.data

\* "./ab" was extracted and gave the content of the file "ab"
C10_Witness ==
  /\ lastOp.op = "extract"
  /\ lastOp.path = <<46, 47, 97, 98>>
  /\ lastOp.err = "none"
  /\ \E i \in 1..Len(tree) :
       tree[i].rel = RelAB /\ tree[i].content # <<>> /\ lastOp.data = tree[i].content

\* the entry of the source tree whose relative path is the canonical form of
\* path is not a regular file (a directory or a symbolic link)
IsNonRegularPath(t, path) ==
  \E i \in 1..Len(t) : t[i].rel = Clean(path) /\ t[i].kind # "regular"

\* C11 (as claimed).  Not-regular-file error: ExtractBytesOfFile of a path
\* that was in the source tree and was not a regular file fails with the
\* not-a-regular-file error, which is not the not-found error.
C11_NotRegularError ==
  (lastOp.op = "extract" /\ ix.state = "open" /\ ~lastOp.closed
     /\ IsNonRegularPath(tree, lastOp.path)) =>
    lastOp.err = "notregular"

\* C11 (amended).  The walk writes no index record for an entry that is not a
\* regular file: ExtractBytesOfFile of the path of a directory or of a
\* symbolic link of the source tree, when no regular file has its key, fails
\* with the not-found error and returns no bytes, as it does for the path "x"
\* that never existed.
C11_NotRegularIsNotFound ==
  (lastOp.op = "extract" /\ ix.state = "open" /\ ~lastOp.closed
     /\ IsNonRegularPath(tree, lastOp.path)
     /\ \A i \in 1..Len(tree) :
          tree[i].kind = "regular" => KeyOf(tree[i].rel) # KeyOf(lastOp.path)) =>
    /\ lastOp.err = "notfound"
    /\ ~lastOp.hasData
    /\ LET never == ExtractBytesOfFile(ix, file, bundle.data, <<120>>)
       IN never.err = lastOp.err /\ never.hasData = lastOp.hasData

\* the symbolic link "s" was asked of the bundle of a tree with regular files
C11_Witness ==
  /\ lastOp.op = "extract" /\ ix.state = "open" /\ ~lastOp.closed
  /\ lastOp.path = RelS
  /\ IsNonRegularPath(tree, RelS)
  /\ NumRegular(tree) > 0
  /\ lastOp.err = "notfound"

\* ------------------------------------------------- bundles of any origin
\* NewIxTar and the reader calls on bundle files that CreateBundle did not
\* write: any header field, index records that decode or not, index entries
\* that lie in the payload or not.  The payload is "ABC".

\* number of records of a drawn index
MaxRecords == 2

KeyAB == KeyOf(RelAB)
KeyX == KeyOf(<<120>>)

\* the records drawn, as "key,start,size" without the line end:
\*   decoding:        ab,0,3   x,1,2   ab,+1,1   ab,3,0
\*   field count:     ab,0     ab,0,3,1
\*   not numeric:     ab,x,3   ab,0,z  ab,,3
\*   out of payload:  ab,-2,3  ab,-99,1  ab,0,-1  ab,2,5  ab,9,0
RecordTexts ==
  { KeyAB \o <<44, 48, 44, 51>>,
    KeyX \o <<44, 49, 44, 50>>,
    KeyAB \o <<44, 43, 49, 44, 49>>,
    KeyAB \o <<44, 51, 44, 48>>,
    KeyAB \o <<44, 48>>,
    KeyAB \o <<44, 48, 44, 51, 44, 49>>,
    KeyAB \o <<44, 120, 44, 51>>,
    KeyAB \o <<44, 48, 44, 122>>,
    KeyAB \o <<44, 44, 51>>,
    KeyAB \o <<44, 45, 50, 44, 51>>,
    KeyAB \o <<44, 45, 57, 57, 44, 49>>,
    KeyAB \o <<44, 48, 44, 45, 49>>,
    KeyAB \o <<44, 50, 44, 53>>,
    KeyAB \o <<44, 57, 44, 48>> }

\* index texts of at most n records, each ended by '\n'
RECURSIVE IndexTexts(_)
IndexTexts(n) ==
  IF n = 0 THEN {<<>>}
  ELSE LET shorter == IndexTexts(n - 1)
       IN shorter \cup {t \o r \o <<10>> : t \in shorter, r \in RecordTexts}

CraftedPayload == <<65, 66, 67>>

\* the 8 bytes of the length field for an index of L bytes: L itself, a value
\* that cuts the last record, a value beyond the end of the file, 2^32, 2^48,
\* and two values with the top bit set
LengthFields(L) ==
  { PutUint64(L),
    PutUint64(IF L >= 2 THEN L - 2 ELSE L),
    PutUint64(L + Len(CraftedPayload) + 1),
    <<0, 0, 0, 1, 0, 0, 0, 0>>,
    <<0, 1, 0, 0, 0, 0, 0, 0>>,
    <<128, 0, 0, 0, 0, 0, 0, 0>>,
    <<255, 255, 255, 255, 255, 255, 255, 255>> }

Crafted(field, index) ==
  [exists |-> TRUE, data |-> Zeros(24) \o field \o index \o CraftedPayload]

\* every index with its own length in the header, every length field with
\* the indexes of one record or none, a file shorter than the header, no file
CraftedBundles ==
  { Crafted(PutUint64(Len(index)), index) : index \in IndexTexts(MaxRecords) }
  \cup UNION { { Crafted(field, index) : field \in LengthFields(Len(index)) } :
               index \in IndexTexts(1) }
  \cup { [exists |-> TRUE, data |-> Zeros(20)], NoBundle }

InitOpen ==
  /\ tree = MkTree([i \in 1..5 |-> FALSE], [i \in 1..3 |-> 0])
  /\ bundle \in CraftedBundles
  /\ prior = bundle
  /\ pc = "returned"
  /\ buildErr = "none"
  /\ walkIdx = 1
  /\ tmpDataFile = <<>>
  /\ tmpCsvFile = <<>>
  /\ csvWriter = <<>>
  /\ currentPos = 0
  /\ csvFileCount = 0
  /\ csvSize = 0
  /\ ix = NilIxTar
  /\ file = NoFile
  /\ lastOp = NoOp
  /\ calls = [c \in Callers |-> NoCall]
  /\ mu = NoLock

NextOpen ==
  \/ Open
  \/ Extract
  \/ List
  \/ GetInfo
  \/ Close

SpecOpen == InitOpen /\ [][NextOpen]_vars

\* a decimal integer: an optional sign, then one digit or more
IsNumeric(s) ==
  LET body == IF s # <<>> /\ s[1] \in {43, 45} THEN Tail(s) ELSE s
  IN body # <<>> /\ \A i \in 1..Len(body) : body[i] \in 48..57

\* the record of a line of the index does not decode
IsMalformed(line) ==
  LET fields == SplitFrom(line, 44, <<>>)
  IN Len(fields) # 3 \/ ~IsNumeric(fields[2]) \/ ~IsNumeric(fields[3])

\* the lines of the index of the file b, when the header gives a length L
\* that the file holds; <<>> otherwise
IndexLines(b) ==
  IF ~b.exists \/ Len(b.data) < 32 THEN <<>>
  ELSE LET L == Uint64AsInt64(SubSeq(b.data, 25, 32))
       IN IF L < 0 \/ 32 + L > Len(b.data) THEN <<>>
          ELSE SelectSeq(SplitFrom(SubSeq(b.data, 33, 32 + L), 10, <<>>),
                         LAMBDA l : l # <<>>)

\* C12.  Malformed index: when a record of the index does not have exactly
\* three fields, or has a start or a size that is not numeric, NewIxTar fails
\* with the index parse error, returns no reader and closes the file handle;
\* it returns a reader only when every record decodes.
C12_MalformedIndex ==
  lastOp.op = "open" =>
    LET lines == IndexLines(bundle)
        bad == \E i \in 1..Len(lines) : IsMalformed(lines[i])
    IN /\ bad => (lastOp.err = "parse" /\ ix.state = "nil" /\ file.state = "closed")
       /\ ix.state = "open" => (~bad /\ lastOp.err = "none")

\* NewIxTar refused an index whose second record has a start that is not a
\* number, after a first record that decodes
C12_Witness ==
  /\ lastOp.op = "open"
  /\ Len(IndexLines(bundle)) = 2
  /\ ~IsMalformed(IndexLines(bundle)[1])
  /\ LET fields == SplitFrom(IndexLines(bundle)[2], 44, <<>>)
     IN Len(fields) = 3 /\ ~IsNumeric(fields[2])
  /\ lastOp.err = "parse"
  /\ file.state = "closed"

\* ------------------------------------------------ concurrent extractions
\* Several callers share one open reader of a bundle CreateBundle wrote.
\* os.File serializes each Seek and each Read by itself, nothing serializes
\* the two of one ExtractBytesOfFile call: a call is two steps on the one
\* cursor of ix.file.  With mu.on the callers wrap every call in a lock of
\* their own.

\* the bundle CreateBundle writes for the tree t (C9_BundleLayout)
BuiltBundle(t) ==
  LET fs == RegularFiles(t)
      index == ExpectedIndex(fs, Len(fs))
  IN [exists |-> TRUE,
      data |-> HeaderBytes(Len(index)) \o index \o ExpectedPayload(fs, Len(fs))]

\* trees of two non-empty regular files with distinct keys
RaceTrees ==
  { t \in Trees :
      /\ ~HasCollision(t)
      /\ NumRegular(t) = 2
      /\ \A i \in 1..Len(t) : t[i].kind = "regular" => t[i].content # <<>> }

\* the paths the callers ask for: "ab", "ba", "d/a", "x"
RacePaths == { RelAB, RelBA, RelDA, <<120>> }

\* the state after CreateBundle returned nil and NewIxTar opened the bundle
InitRace ==
  /\ tree \in RaceTrees
  /\ prior = NoBundle
  /\ bundle = BuiltBundle(tree)
  /\ pc = "returned"
  /\ buildErr = "none"
  /\ walkIdx = 1
  /\ tmpDataFile = <<>>
  /\ tmpCsvFile = <<>>
  /\ csvWriter = <<>>
  /\ currentPos = 0
  /\ csvFileCount = 0
  /\ csvSize = 0
  /\ ix = NewIxTar(bundle).ix
  /\ file = NewIxTar(bundle).file
  /\ lastOp = [NoOp EXCEPT !.op = "open"]
  /\ calls = [c \in Callers |-> NoCall]
  /\ mu \in { [on |-> on, holder |-> 0] : on \in BOOLEAN }

\* ix.file.Seek(ix.dataOffset+fileIndex.Start, io.SeekStart)
SeekToEntryNoBase(r, f, fileIndex) == Seek(f, fileIndex.Start)

SeekToEntry(r, f, fileIndex) == Seek(f, r.dataOffset + fileIndex.Start)

\* the calls other than c that sit between their Seek and their ReadFull
\* have had the cursor moved under them
MarkMoved(c) ==
  [d \in Callers |->
     IF d # c /\ calls[d].pc = "sought" THEN [calls[d] EXCEPT !.moved = TRUE]
     ELSE calls[d]]

\* caller c enters ExtractBytesOfFile(filePath), under the lock if the
\* callers use one: the nil check, Clean, the lookup and the Seek
ExtractSeek(c) ==
  /\ calls[c].pc = "idle"
  /\ mu.on => mu.holder = 0
  /\ \E filePath \in RacePaths :
       LET found == Lookup(ix, hashFilePath(Clean(filePath)))
           sought == SeekToEntry(ix, file, found.fileIndex)
           failed(e) == [NoCall EXCEPT !.pc = "done", !.path = filePath, !.err = e]
       IN IF ix.state = "nil"
          THEN calls' = [calls EXCEPT ![c] = failed("nil")] /\ UNCHANGED << file, mu >>
          ELSE IF ~found.exists
          THEN calls' = [calls EXCEPT ![c] = failed("notfound")] /\ UNCHANGED << file, mu >>
          ELSE IF sought.err # "none"
          THEN calls' = [calls EXCEPT ![c] = failed(sought.err)] /\ UNCHANGED << file, mu >>
          ELSE /\ calls' = [MarkMoved(c) EXCEPT ![c] =
                              [NoCall EXCEPT !.pc = "sought", !.path = filePath,
                                             !.fileIndex = found.fileIndex]]
               /\ file' = sought.f
               /\ mu' = [mu EXCEPT !.holder = IF mu.on THEN c ELSE 0]
  /\ UNCHANGED << tree, prior, bundle, pc, buildErr, buildLocals, ix, lastOp >>

\* caller c goes on: make([]byte, fileIndex.Size), io.ReadFull(ix.file, data)
\* and the return, which ends the critical section
ExtractRead(c) ==
  /\ calls[c].pc = "sought"
  /\ LET size == calls[c].fileIndex.Size
         got == ReadFull(file, bundle.data, size)
         done == [calls[c] EXCEPT !.pc = "done"]
     IN IF size < 0
        THEN calls' = [calls EXCEPT ![c] = [done EXCEPT !.err = "panic"]]
             /\ UNCHANGED file
        ELSE /\ calls' = [MarkMoved(c) EXCEPT ![c] =
                            [done EXCEPT !.err = got.err, !.data = got.data,
                                         !.hasData = (got.err = "none")]]
             /\ file' = got.f
  /\ mu' = [mu EXCEPT !.holder = 0]
  /\ UNCHANGED << tree, prior, bundle, pc, buildErr, buildLocals, ix, lastOp >>

\* caller c has used the result and is ready for its next call
ExtractNext(c) ==
  /\ calls[c].pc = "done"
  /\ calls[c].err # "panic"
  /\ calls' = [calls EXCEPT ![c] = NoCall]
  /\ UNCHANGED << tree, prior, bundle, pc, buildErr, buildLocals, readerVars, mu >>

SeekSteps == \E c \in Callers : ExtractSeek(c)
ReadSteps == \E c \in Callers : ExtractRead(c)
NextCalls == \E c \in Callers : ExtractNext(c)

NextRace ==
  \/ SeekSteps
  \/ ReadSteps
  \/ NextCalls

SpecRace == InitRace /\ [][NextRace]_vars

\* the bytes of the entry the index has for path
EntryBytes(path) ==
  LET e == ix.index[KeyOf(path)]
  IN SubSeq(bundle.data, ix.dataOffset + e.Start + 1, ix.dataOffset + e.Start + e.Size)

\* C13.  Shared cursor: a call for an entry of the index returns, with no
\* error, that entry's bytes unless another call moved the cursor between its
\* Seek and its ReadFull; when every call's Seek and ReadFull run as one
\* critical section no call has the cursor moved, so every call returns its
\* own entry's bytes.  (Without the lock a call can return other bytes with
\* no error: C13_Witness.)
C13_SharedCursor ==
  \A c \in Callers :
    (calls[c].pc = "done" /\ KeyOf(calls[c].path) \in DOMAIN ix.index) =>
      /\ mu.on => ~calls[c].moved
      /\ ~calls[c].moved =>
           /\ calls[c].err = "none"
           /\ calls[c].hasData
           /\ calls[c].data = EntryBytes(calls[c].path)

\* without the lock, a call whose Seek and ReadFull another call's step came
\* between returned, with no error, bytes that are not its entry's
C13_Witness ==
  \E c \in Callers :
    /\ ~mu.on
    /\ calls[c].pc = "done"
    /\ KeyOf(calls[c].path) \in DOMAIN ix.index
    /\ calls[c].moved
    /\ calls[c].err = "none"
    /\ calls[c].hasData
    /\ calls[c].data # EntryBytes(calls[c].path)

\* C14 (as claimed).  Open robustness: whatever the length field of the
\* header, NewIxTar returns a reader, or returns an error with the file handle
\* closed; it does not crash, in particular not when the length exceeds the
\* rest of the file or has its top bit set.
C14_OpenRobust ==
  lastOp.op = "open" =>
    \/ lastOp.err = "none" /\ ix.state = "open" /\ file.state = "open"
    \/ lastOp.err \notin {"none", "panic"} /\ ix.state = "nil" /\ file.state # "open"

\* the payload length of the opened bundle
PayloadLen == Len(bundle.data) - ix.dataOffset

\* C15 (as claimed).  Extraction stays in the payload: on any bundle NewIxTar
\* opened, ExtractBytesOfFile does not crash, returns only bytes of the
\* payload region [32 + L, EOF), and fails with an error for an entry with a
\* negative start, a negative size or start + size beyond the payload length.
C15_StaysInPayload ==
  (lastOp.op = "extract" /\ ix.state = "open" /\ ~lastOp.closed) =>
    /\ lastOp.err # "panic"
    /\ lastOp.err = "none" =>
         /\ lastOp.seekTo >= ix.dataOffset
         /\ lastOp.seekTo + Len(lastOp.data) <= Len(bundle.data)
    /\ KeyOf(lastOp.path) \in DOMAIN ix.index =>
         LET e == ix.index[KeyOf(lastOp.path)]
         IN (e.Start < 0 \/ e.Size < 0 \/ e.Start + e.Size > PayloadLen) =>
              lastOp.err \notin {"none", "panic"}

====
